---- MODULE Spec2Model ----
(***************************************************************************)
(* Loxten API: the request-orchestration layer.                            *)
(*   routers/analyze.py  - result cache, analysis quota, analyze_endpoint  *)
(*   routers/breach.py   - breach quota, breach_endpoint                   *)
(*   services/gemini.py  - analyze_page, _parse_llm_response               *)
(*   services/hibp.py    - check_email_breaches, _fallback_hash_check      *)
(* The server is a single asyncio event loop: the code between two awaits  *)
(* of a handler runs without interleaving, so every action below is one    *)
(* such await-free stretch of a handler.                                   *)
(***************************************************************************)
EXTENDS Integers, Sequences, FiniteSets, TLC

\* ------------------------------------------------------------------ bounds
NumReqs == 2          \* requests served in one behaviour
MaxDays == 1          \* wall-clock days after the first one
NumUrls == 2          \* distinct page URLs
\* the configured daily limits (config.py: 50 and 5 unless the environment
\* says otherwise), set small enough to be reached
FREE_SCANS_PER_DAY == 1
FREE_BREACH_CHECKS_PER_DAY == 1

\* ------------------------------------------------------- program constants
CACHE_TTL == 300
SecondsPerDay == 86400

Reqs == 1..NumReqs
Urls == 1..NumUrls
None == 0             \* Python None for an object reference
NoDay == -1           \* the initial _day_key "" (equal to no date)

\* Wall-clock readings of time.time() the model visits: on the first day the
\* instants that put a cache entry just inside and exactly at its TTL, then
\* each later midnight.
Offsets == {0, CACHE_TTL - 1, CACHE_TTL}
Instants == Offsets \cup {d * SecondsPerDay : d \in 1..MaxDays}

\* time.strftime("%Y-%m-%d"): the calendar day of a clock reading
Today(t) == t \div SecondsPerDay

VARIABLES
    now,                  \* the wall clock (seconds)
    settings,             \* config.Settings: LLM_PROVIDER and the two keys
    cache,                \* analyze._cache: url -> (object ref, timestamp)
    heap,                 \* the AnalyzeResponse objects alive, by reference
    analyze_daily_counts, \* analyze._daily_counts["default"]
    analyze_day_key,      \* analyze._day_key
    breach_daily_counts,  \* breach._daily_counts["default"]
    breach_day_key,       \* breach._day_key
    req,                  \* the requests: handler position and arguments
    returned,             \* the response the last step returned, if it returned one
    received,             \* the reply the awaited call of the last step came back with
    charged               \* history: per operation class, the operations admitted
                          \* and charged so far on the calendar day of `now`

vars == <<now, settings, cache, heap, analyze_daily_counts, analyze_day_key,
          breach_daily_counts, breach_day_key, req, returned, received, charged>>

\* ------------------------------------------------------------ configuration
\* str.lower() on the provider names the model configures
Lower(s) == CASE s = "GROQ" -> "groq"
              [] s = "Gemini" -> "gemini"
              [] OTHER -> s

\* The deployments considered: each backend with and without its own key
\* (the other backend's key is set, to show it is not consulted), and a
\* provider name that is neither.
Configs ==
    { [LLM_PROVIDER |-> "Gemini", GEMINI_API_KEY |-> "k", GROQ_API_KEY |-> ""],
      [LLM_PROVIDER |-> "gemini", GEMINI_API_KEY |-> "",  GROQ_API_KEY |-> "k"],
      [LLM_PROVIDER |-> "GROQ",   GEMINI_API_KEY |-> "",  GROQ_API_KEY |-> "k"],
      [LLM_PROVIDER |-> "groq",   GEMINI_API_KEY |-> "k", GROQ_API_KEY |-> ""],
      [LLM_PROVIDER |-> "openai", GEMINI_API_KEY |-> "k", GROQ_API_KEY |-> "k"] }

\* --------------------------------------------------------- models.py records
\* AnalyzeResponse(url=..., ...) with the defaults of the pydantic model
AnalyzeResponse(url, risk_score, is_safe, threats, ai_summary) ==
    [url |-> url, risk_score |-> risk_score, is_safe |-> is_safe,
     threats |-> threats, ai_summary |-> ai_summary, cached |-> FALSE]

ThreatItem(type, severity, description, confidence) ==
    [type |-> type, severity |-> severity, description |-> description,
     confidence |-> confidence]

\* ------------------------------------------------- JSON values (json.loads)
JMissing == [t |-> "missing"]           \* the key is absent from the object
JNull == [t |-> "null"]
JNum(h) == [t |-> "num", h |-> h]       \* a number, in hundredths (JNum(370) is 3.7)
JStr(s) == [t |-> "str", s |-> s]
JBool(b) == [t |-> "bool", b |-> b]
JList(items) == [t |-> "list", items |-> items]
JThreat(type, confidence) == [t |-> "object", type |-> type, confidence |-> confidence]
JObject(risk_score, is_safe, threats, ai_summary) ==
    [t |-> "object", risk_score |-> risk_score, is_safe |-> is_safe,
     threats |-> threats, ai_summary |-> ai_summary]
JInvalid == [t |-> "invalid"]           \* json.loads raises JSONDecodeError

\* int(x) of Python on a JSON value: the integer (truncated towards zero), or
\* the exception raised
NumericStrings == ("42" :> 42) @@ ("37" :> 37) @@ ("0" :> 0)
PyInt(x) ==
    CASE x.t = "num" -> [exc |-> "", v |-> IF x.h >= 0 THEN x.h \div 100 ELSE -((-x.h) \div 100)]
      [] x.t = "bool" -> [exc |-> "", v |-> IF x.b THEN 1 ELSE 0]
      [] x.t = "str" -> IF x.s \in DOMAIN NumericStrings
                        THEN [exc |-> "", v |-> NumericStrings[x.s]]
                        ELSE [exc |-> "ValueError", v |-> 0]
      [] OTHER -> [exc |-> "TypeError", v |-> 0]

\* float(x) of Python on a JSON value, in hundredths
PyFloat(x) ==
    CASE x.t = "num" -> [exc |-> "", v |-> x.h]
      [] x.t = "bool" -> [exc |-> "", v |-> IF x.b THEN 100 ELSE 0]
      [] x.t = "str" -> IF x.s \in DOMAIN NumericStrings
                        THEN [exc |-> "", v |-> 100 * NumericStrings[x.s]]
                        ELSE [exc |-> "ValueError", v |-> 0]
      [] OTHER -> [exc |-> "TypeError", v |-> 0]

Min(a, b) == IF a < b THEN a ELSE b
\* max written with its comparison the wrong way round
Max_Swapped(a, b) == IF a > b THEN b ELSE a

Max(a, b) == IF a > b THEN a ELSE b

\* dict.get(key, default) on a parsed object
Get(data, key, default) == IF data[key].t = "missing" THEN default ELSE data[key]

\* ----------------------------------------- services/gemini.py: the interpreter
\* One element of the threats comprehension: the exception it raises, if any
ThreatExc(t) ==
    IF t.t # "object" THEN "AttributeError"            \* t.get on a non-dict
    ELSE LET c == PyFloat(Get(t, "confidence", JNum(50)))
         IN IF c.exc # "" THEN c.exc
            ELSE IF Get(t, "type", JStr("unknown")).t # "str"
                 THEN "ValueError"                      \* pydantic ValidationError
                 ELSE ""

ThreatOf(t) ==
    ThreatItem(Get(t, "type", JStr("unknown")).s, "medium", "",
               PyFloat(Get(t, "confidence", JNum(50))).v)

\* The threats comprehension over data.get("threats", [])
ParseThreats(tv) ==
    IF tv.t # "list" THEN [exc |-> "TypeError", threats |-> <<>>]   \* not iterable
    ELSE LET bad == {i \in DOMAIN tv.items : ThreatExc(tv.items[i]) # ""}
         IN IF bad # {}
            THEN [exc |-> ThreatExc(tv.items[CHOOSE i \in bad : \A j \in bad : i <= j]),
                  threats |-> <<>>]
            ELSE [exc |-> "", threats |-> [i \in DOMAIN tv.items |-> ThreatOf(tv.items[i])]]

\* The body of the try block of _parse_llm_response: the AnalyzeResponse
\* built, or the first exception raised
ParseBody(raw, url) ==
    LET data == raw.json IN
    IF data.t = "invalid" THEN [exc |-> "JSONDecodeError"]
    ELSE IF data.t # "object" THEN [exc |-> "AttributeError"]     \* data.get
    ELSE
      LET th == ParseThreats(Get(data, "threats", JList(<<>>)))
          rs == PyInt(Get(data, "risk_score", JNum(0)))
          safe == Get(data, "is_safe", JBool(TRUE))
          summ == Get(data, "ai_summary", JStr(""))
      IN IF th.exc # "" THEN [exc |-> th.exc]
         ELSE IF rs.exc # "" THEN [exc |-> rs.exc]
         ELSE IF safe.t # "bool" \/ summ.t # "str"
              THEN [exc |-> "ValueError"]                         \* ValidationError
         ELSE [exc |-> "",
               result |-> AnalyzeResponse(url, Min(100, Max(0, rs.v)), safe.b,
                                          th.threats, <<summ.s>>)]

\* _parse_llm_response without its except clause
ParseLLMResponse_Raises(raw, url) == ParseBody(raw, url)

\* _parse_llm_response(raw, url): the result returned, or the exception that
\* escapes the except clause (JSONDecodeError, KeyError, ValueError are caught)
ParseLLMResponse(raw, url) ==
    LET b == ParseBody(raw, url) IN
    IF b.exc = "" THEN b
    ELSE IF b.exc \in {"JSONDecodeError", "KeyError", "ValueError"}
         THEN [exc |-> "",
               result |-> AnalyzeResponse(url, 0, TRUE, <<>>,
                              <<"Analysis could not be parsed. Raw: ", raw.text>>)]
         ELSE b

\* ------------------------------------------ services/gemini.py: analyze_page
\* analyze_page testing the other backend's key
AnalyzePage_WrongKey(url, cfg) ==
    LET provider == Lower(cfg.LLM_PROVIDER) IN
    IF provider = "gemini"
    THEN IF cfg.GROQ_API_KEY = ""
         THEN [call |-> "",
               result |-> AnalyzeResponse(url, 0, TRUE, <<>>,
                   <<"Gemini API key not configured. Set GEMINI_API_KEY in .env">>)]
         ELSE [call |-> "gemini"]
    ELSE IF provider = "groq"
    THEN IF cfg.GEMINI_API_KEY = ""
         THEN [call |-> "",
               result |-> AnalyzeResponse(url, 0, TRUE, <<>>,
                   <<"Groq API key not configured. Set GROQ_API_KEY in .env">>)]
         ELSE [call |-> "groq"]
    ELSE [call |-> "",
          result |-> AnalyzeResponse(url, 0, TRUE, <<>>,
                                     <<"Unknown LLM provider: ", provider>>)]

\* analyze_page up to its first await: the result it returns without calling
\* a backend, or the backend it goes on to call
AnalyzePage(url, cfg) ==
    LET provider == Lower(cfg.LLM_PROVIDER) IN
    IF provider = "gemini"
    THEN IF cfg.GEMINI_API_KEY = ""
         THEN [call |-> "",
               result |-> AnalyzeResponse(url, 0, TRUE, <<>>,
                   <<"Gemini API key not configured. Set GEMINI_API_KEY in .env">>)]
         ELSE [call |-> "gemini"]
    ELSE IF provider = "groq"
    THEN IF cfg.GROQ_API_KEY = ""
         THEN [call |-> "",
               result |-> AnalyzeResponse(url, 0, TRUE, <<>>,
                   <<"Groq API key not configured. Set GROQ_API_KEY in .env">>)]
         ELSE [call |-> "groq"]
    ELSE [call |-> "",
          result |-> AnalyzeResponse(url, 0, TRUE, <<>>,
                                     <<"Unknown LLM provider: ", provider>>)]

\* What a backend call can come back with: an exception (connection error,
\* HTTP error status, timeout) or the model's text
RawText(text, json) == [text |-> text, json |-> json]
LLMReplies ==
    { [exc |-> "ConnectError"],
      [exc |-> "", raw |-> RawText("phishing 87",
            JObject(JNum(8700), JBool(FALSE),
                    JList(<<JThreat(JStr("phishing"), JNum(90))>>), JStr("Phishing page")))],
      [exc |-> "", raw |-> RawText("I cannot help with that", JInvalid)],
      [exc |-> "", raw |-> RawText("[]", JList(<<>>))] }

\* _analyze_gemini / _analyze_groq after the backend call came back
AnalyzeBackend(reply, url) ==
    IF reply.exc # "" THEN [exc |-> reply.exc] ELSE ParseLLMResponse(reply.raw, url)

\* ---------------------------------------------------------- services/hibp.py
BreachEntry(name, date, description) ==
    [name |-> name, date |-> date, description |-> description]
BreachResponse(email, breached, breach_count, breaches) ==
    [email |-> email, breached |-> breached, breach_count |-> breach_count,
     breaches |-> breaches]

\* Text is a sequence of characters; a formatted text is the sequence of its pieces
LowerChar(ch) == CASE ch = "A" -> "a" [] ch = "B" -> "b" [] OTHER -> ch
StrLower(str) == [i \in DOMAIN str |-> LowerChar(str[i])]
IsSpace(ch) == ch \in {" ", "\t", "\n"}
RECURSIVE LStrip(_)
LStrip(str) == IF str # <<>> /\ IsSpace(Head(str)) THEN LStrip(Tail(str)) ELSE str
RECURSIVE RStrip(_)
RStrip(str) == IF str # <<>> /\ IsSpace(str[Len(str)])
               THEN RStrip(SubSeq(str, 1, Len(str) - 1)) ELSE str
Strip(str) == RStrip(LStrip(str))

\* email.strip() without the .lower()
Normalize_NoLower(email) == Strip(email)

\* email = email.strip().lower()
Normalize(email) == StrLower(Strip(email))

\* hashlib.sha1(email).hexdigest().upper(), as an uninterpreted injective
\* digest split where the code splits it: [:5] and [5:]
Sha1Prefix(email) == <<"sha1[:5]", email>>
Sha1Suffix(email) == <<"sha1[5:]", email>>

JBreach(Name, BreachDate) == [t |-> "object", Name |-> Name, BreachDate |-> BreachDate]

\* One element of the breaches comprehension: the exception it raises, if any
BreachExc(b) ==
    IF b.t # "object" THEN "AttributeError"
    ELSE IF Get(b, "Name", JStr("Unknown")).t # "str"
            \/ Get(b, "BreachDate", JStr("Unknown")).t # "str"
         THEN "ValidationError"
         ELSE ""

\* check_email_breaches once the directory has answered (or failed to):
\* the BreachResponse returned, or fallback = TRUE when the hash-range query
\* is made next
DirectoryOutcome(reply, email) ==
    IF reply.exc = "TimeoutException"
    THEN [fallback |-> FALSE,
          result |-> BreachResponse(email, FALSE, 0,
                       <<BreachEntry("Timeout", "", <<"HIBP service timed out.">>)>>)]
    ELSE IF reply.exc # ""
    THEN [fallback |-> FALSE,
          result |-> BreachResponse(email, FALSE, 0, <<BreachEntry("Error", "", <<reply.exc>>)>>)]
    ELSE IF reply.status = 404
    THEN [fallback |-> FALSE, result |-> BreachResponse(email, FALSE, 0, <<>>)]
    ELSE IF reply.status = 200
    THEN IF reply.json.t = "invalid"
         THEN [fallback |-> FALSE,
               result |-> BreachResponse(email, FALSE, 0,
                            <<BreachEntry("Error", "", <<"JSONDecodeError">>)>>)]
         ELSE IF reply.json.t # "list"      \* null, a number, a boolean: not iterable
         THEN [fallback |-> FALSE,
               result |-> BreachResponse(email, FALSE, 0,
                            <<BreachEntry("Error", "", <<"TypeError">>)>>)]
         ELSE LET items == reply.json.items
                  bad == {i \in DOMAIN items : BreachExc(items[i]) # ""}
              IN IF bad # {}
                 THEN [fallback |-> FALSE,
                       result |-> BreachResponse(email, FALSE, 0,
                          <<BreachEntry("Error", "",
                              <<BreachExc(items[CHOOSE i \in bad : \A j \in bad : i <= j])>>)>>)]
                 ELSE [fallback |-> FALSE,
                       result |-> BreachResponse(email, TRUE, Len(items),
                          [i \in DOMAIN items |->
                              BreachEntry(Get(items[i], "Name", JStr("Unknown")).s,
                                          Get(items[i], "BreachDate", JStr("Unknown")).s, <<>>)])]
    ELSE IF reply.status = 401
    THEN [fallback |-> TRUE]
    ELSE IF reply.status = 429
    THEN [fallback |-> FALSE,
          result |-> BreachResponse(email, FALSE, 0,
                       <<BreachEntry("Rate Limited", "", <<"Too many requests. Try again later.">>)>>)]
    ELSE [fallback |-> FALSE, result |-> BreachResponse(email, FALSE, 0, <<>>)]

\* _fallback_hash_check reporting the last matching line instead of the first
FallbackHashCheck_LastMatch(reply, email) ==
    LET suffix == Sha1Suffix(email)
        clean == BreachResponse(email, FALSE, 0, <<>>)
    IN IF reply.exc # "" THEN clean
       ELSE IF reply.status # 200 THEN clean
       ELSE LET hits == {i \in DOMAIN reply.lines :
                            Len(reply.lines[i]) = 2 /\ reply.lines[i][1] = suffix}
            IN IF hits = {} THEN clean
               ELSE LET last == CHOOSE i \in hits : \A j \in hits : i >= j
                        count == PyInt(JStr(reply.lines[last][2]))
                    IN IF count.exc # "" THEN clean
                       ELSE BreachResponse(email, TRUE, count.v,
                              <<BreachEntry("Hash Match", "", <<"Email hash found ", count.v,
                                            " time(s) in breach databases.">>)>>)

\* _fallback_hash_check once the hash-range endpoint has answered: a line is
\* the sequence of its ":"-separated parts
FallbackHashCheck(reply, email) ==
    LET suffix == Sha1Suffix(email)
        clean == BreachResponse(email, FALSE, 0, <<>>)
    IN IF reply.exc # "" THEN clean
       ELSE IF reply.status # 200 THEN clean
       ELSE LET hits == {i \in DOMAIN reply.lines :
                            Len(reply.lines[i]) = 2 /\ reply.lines[i][1] = suffix}
            IN IF hits = {} THEN clean
               ELSE LET first == CHOOSE i \in hits : \A j \in hits : i <= j
                        count == PyInt(JStr(reply.lines[first][2]))
                    IN IF count.exc # "" THEN clean
                       ELSE BreachResponse(email, TRUE, count.v,
                              <<BreachEntry("Hash Match", "", <<"Email hash found ", count.v,
                                            " time(s) in breach databases.">>)>>)

\* ------------------------------------------------------- routers/analyze.py
ClientIds == {"default"}

\* _get_cached with the TTL test the wrong way round (only expired entries are served)
GetCached_ReversedTTL(url, c, h, t) ==
    IF url \in DOMAIN c
    THEN IF t - c[url].ts > CACHE_TTL
         THEN [ret |-> c[url].obj, cache |-> c,
               heap |-> [h EXCEPT ![c[url].obj].cached = TRUE]]
         ELSE [ret |-> None, cache |-> [k \in DOMAIN c \ {url} |-> c[k]], heap |-> h]
    ELSE [ret |-> None, cache |-> c, heap |-> h]

\* _get_cached with the TTL test written <= (an entry aged exactly TTL is served)
GetCached_InclusiveTTL(url, c, h, t) ==
    IF url \in DOMAIN c
    THEN IF t - c[url].ts <= CACHE_TTL
         THEN [ret |-> c[url].obj, cache |-> c,
               heap |-> [h EXCEPT ![c[url].obj].cached = TRUE]]
         ELSE [ret |-> None, cache |-> [k \in DOMAIN c \ {url} |-> c[k]], heap |-> h]
    ELSE [ret |-> None, cache |-> c, heap |-> h]

\* _get_cached(url): the reference returned (None for a miss) and the cache
\* and objects it leaves behind
GetCached(url, c, h, t) ==
    IF url \in DOMAIN c
    THEN IF t - c[url].ts < CACHE_TTL
         THEN [ret |-> c[url].obj, cache |-> c,
               heap |-> [h EXCEPT ![c[url].obj].cached = TRUE]]
         ELSE [ret |-> None, cache |-> [k \in DOMAIN c \ {url} |-> c[k]], heap |-> h]
    ELSE [ret |-> None, cache |-> c, heap |-> h]

\* a write that leaves an existing entry alone (first write wins)
PutCached_KeepFirst(url, c, ref, t) ==
    [k \in DOMAIN c \cup {url} |-> IF k = url /\ url \notin DOMAIN c
                                    THEN [obj |-> ref, ts |-> t] ELSE c[k]]

\* _cache[url] = (result, time.time())
PutCached(url, c, ref, t) ==
    [k \in DOMAIN c \cup {url} |-> IF k = url THEN [obj |-> ref, ts |-> t] ELSE c[k]]

\* _check_rate_limit with the limit test written <= (one request too many)
CheckRateLimit_OffByOne(client_id, counts, day_key, limit, t) ==
    LET today == Today(t)
        counts1 == IF today # day_key THEN [c \in {"default"} |-> 0] ELSE counts
    IN [ok |-> counts1[client_id] <= limit, counts |-> counts1, day_key |-> today]

\* _check_rate_limit that forgets the limit
CheckRateLimit_AlwaysOk(client_id, counts, day_key, limit, t) ==
    LET today == Today(t)
        counts1 == IF today # day_key THEN [c \in {"default"} |-> 0] ELSE counts
    IN [ok |-> TRUE, counts |-> counts1, day_key |-> today]

\* _check_rate_limit(client_id) of either router
CheckRateLimit(client_id, counts, day_key, limit, t) ==
    LET today == Today(t)
        counts1 == IF today # day_key THEN [c \in ClientIds |-> 0] ELSE counts
    IN [ok |-> counts1[client_id] < limit, counts |-> counts1, day_key |-> today]

\* the increment left out
Charge_Nothing(counts) == counts

\* the increment charging two units
Charge_Twice(counts) == [counts EXCEPT !["default"] = @ + 2]

\* _daily_counts["default"] += 1
Charge(counts) == [counts EXCEPT !["default"] = @ + 1]

\* a new object on the heap: its reference, and the heap holding it
NewRef(h) == CHOOSE o \in 1..(NumUrls + 2) : o \notin DOMAIN h /\ \A q \in 1..(o - 1) : q \in DOMAIN h
Alloc(h, obj) == [o \in DOMAIN h \cup {NewRef(h)} |-> IF o = NewRef(h) THEN obj ELSE h[o]]

\* Reference counting: an AnalyzeResponse lives while the cache or the
\* response being returned holds it
Live(h, c, ref) == [o \in (DOMAIN h) \cap ({c[k].obj : k \in DOMAIN c} \cup {ref}) |-> h[o]]

Result(ref) == [kind |-> "result", obj |-> ref]
HTTPException(status) == [kind |-> "http_error", status |-> status]
NoReturn == [r |-> 0]
NoReply == [r |-> 0]
Received(r, reply) == [r |-> r, reply |-> reply]
Return(r, op, url, email, resp) ==
    [r |-> r, op |-> op, url |-> url, email |-> email, resp |-> resp]

\* url, email: the argument of the request (page_data.url, request.email);
\* today: the date _check_rate_limit read when it admitted the request
IdleReq == [pc |-> "idle", url |-> 0, email |-> <<>>, today |-> NoDay]
DoneReq == [pc |-> "done", url |-> 0, email |-> <<>>, today |-> NoDay]

\* the except clause reporting the failure as a threat
Unavailable_Unsafe(url, exc) ==
    [url |-> url, risk_score |-> 100, is_safe |-> FALSE, threats |-> <<>>,
     ai_summary |-> <<"Analysis temporarily unavailable: ", exc>>, cached |-> FALSE]

\* the AnalyzeResponse of the except clause of analyze_endpoint
Unavailable(url, exc) ==
    AnalyzeResponse(url, 0, TRUE, <<>>, <<"Analysis temporarily unavailable: ", exc>>)

\* requests arrive in the order of their numbers
CanStart(r) == req[r].pc = "idle" /\ \A q \in Reqs : q < r => req[q].pc # "idle"

\* analyze_endpoint from its start to the await of the backend call, or to its
\* return when nothing is awaited
AnalyzeStart(r, u) ==
    /\ CanStart(r)
    /\ LET g == GetCached(u, cache, heap, now)
           rl == CheckRateLimit("default", analyze_daily_counts, analyze_day_key,
                                FREE_SCANS_PER_DAY, now)
           ap == AnalyzePage(u, settings)
       IN IF g.ret # None
          THEN /\ req' = [req EXCEPT ![r] = DoneReq]
               /\ returned' = Return(r, "analyze", u, <<>>, Result(g.ret))
               /\ cache' = g.cache
               /\ heap' = Live(g.heap, g.cache, g.ret)
               /\ UNCHANGED <<analyze_daily_counts, analyze_day_key, charged>>
          ELSE IF ~rl.ok
          THEN /\ req' = [req EXCEPT ![r] = DoneReq]
               /\ returned' = Return(r, "analyze", u, <<>>, HTTPException(429))
               /\ cache' = g.cache
               /\ heap' = Live(g.heap, g.cache, None)
               /\ analyze_daily_counts' = rl.counts
               /\ analyze_day_key' = rl.day_key
               /\ UNCHANGED charged
          ELSE IF ap.call # ""
          THEN /\ req' = [req EXCEPT ![r] = [pc |-> "await_llm", url |-> u, email |-> <<>>,
                                              today |-> rl.day_key]]
               /\ UNCHANGED charged
               /\ returned' = NoReturn
               /\ cache' = g.cache
               /\ heap' = Live(g.heap, g.cache, None)
               /\ analyze_daily_counts' = rl.counts
               /\ analyze_day_key' = rl.day_key
          ELSE /\ req' = [req EXCEPT ![r] = DoneReq]
               /\ returned' = Return(r, "analyze", u, <<>>, Result(NewRef(g.heap)))
               /\ cache' = PutCached(u, g.cache, NewRef(g.heap), now)
               /\ heap' = Live(Alloc(g.heap, ap.result), cache', NewRef(g.heap))
               /\ analyze_daily_counts' = Charge(rl.counts)
               /\ analyze_day_key' = rl.day_key
               /\ charged' = [charged EXCEPT !.analysis = @ + 1]
    /\ received' = NoReply
    /\ UNCHANGED <<now, settings, breach_daily_counts, breach_day_key>>

\* analyze_endpoint writing the result of its except clause to the cache too
AnalyzeResume_CachesFallback(r, reply) ==
    /\ req[r].pc = "await_llm"
    /\ LET u == req[r].url
           out == AnalyzeBackend(reply, u)
       IN IF out.exc = ""
          THEN /\ cache' = PutCached(u, cache, NewRef(heap), now)
               /\ heap' = Live(Alloc(heap, out.result), cache', NewRef(heap))
               /\ analyze_daily_counts' = Charge(analyze_daily_counts)
               /\ charged' = IF req[r].today = Today(now)
                             THEN [charged EXCEPT !.analysis = @ + 1] ELSE charged
          ELSE /\ cache' = PutCached(u, cache, NewRef(heap), now)
               /\ heap' = Live(Alloc(heap, Unavailable(u, out.exc)), cache', NewRef(heap))
               /\ UNCHANGED <<analyze_daily_counts, charged>>
    /\ returned' = Return(r, "analyze", req[r].url, <<>>, Result(NewRef(heap)))
    /\ req' = [req EXCEPT ![r] = DoneReq]
    /\ received' = Received(r, reply)
    /\ UNCHANGED <<now, settings, analyze_day_key, breach_daily_counts, breach_day_key>>

\* analyze_endpoint from the return of the backend call to its own return
AnalyzeResume(r, reply) ==
    /\ req[r].pc = "await_llm"
    /\ LET u == req[r].url
           out == AnalyzeBackend(reply, u)
       IN IF out.exc = ""
          THEN /\ cache' = PutCached(u, cache, NewRef(heap), now)
               /\ heap' = Live(Alloc(heap, out.result), cache', NewRef(heap))
               /\ analyze_daily_counts' = Charge(analyze_daily_counts)
               /\ charged' = IF req[r].today = Today(now)
                             THEN [charged EXCEPT !.analysis = @ + 1] ELSE charged
          ELSE /\ heap' = Live(Alloc(heap, Unavailable(u, out.exc)), cache, NewRef(heap))
               /\ UNCHANGED <<cache, analyze_daily_counts, charged>>
    /\ returned' = Return(r, "analyze", req[r].url, <<>>, Result(NewRef(heap)))
    /\ req' = [req EXCEPT ![r] = DoneReq]
    /\ received' = Received(r, reply)
    /\ UNCHANGED <<now, settings, analyze_day_key, breach_daily_counts, breach_day_key>>

\* -------------------------------------------------------- routers/breach.py
Breach(body) == [kind |-> "breach", body |-> body]

\* the e-mail addresses requests carry
Emails == { <<>>, <<"b">>, <<" ", "A", "@", "b">> }

\* what the breach directory can come back with
DirectoryReplies ==
    { [exc |-> "TimeoutException"],
      [exc |-> "ConnectError"],
      [exc |-> "", status |-> 404],
      [exc |-> "", status |-> 200,
       json |-> JList(<<JBreach(JStr("Adobe"), JStr("2013-10-04")), JBreach(JStr("LinkedIn"), JMissing)>>)],
      [exc |-> "", status |-> 401],
      [exc |-> "", status |-> 429],
      [exc |-> "", status |-> 503] }

\* what the hash-range endpoint can come back with, for a given address
RangeReplies(email) ==
    { [exc |-> "ConnectError"],
      [exc |-> "", status |-> 503],
      [exc |-> "", status |-> 200,
       lines |-> << <<Sha1Suffix(<<"z">>), "42">>, <<Sha1Suffix(email), "37">> >>],
      [exc |-> "", status |-> 200, lines |-> << <<Sha1Suffix(<<"z">>), "42">> >>] }

\* the validation that only rejects the empty address
InvalidEmail_EmptyOnly(e) == e = <<>>

\* not request.email or "@" not in request.email
InvalidEmail(e) == e = <<>> \/ "@" \notin {e[i] : i \in DOMAIN e}

\* breach_endpoint from its start to the await of the directory query, or to
\* the exception it raises before.  check_email_breaches catches every
\* Exception itself, so the except clause of breach_endpoint (status 500) is
\* never entered and has no action.
BreachStart(r, e) ==
    /\ CanStart(r)
    /\ LET rl == CheckRateLimit("default", breach_daily_counts, breach_day_key,
                                FREE_BREACH_CHECKS_PER_DAY, now)
       IN IF InvalidEmail(e)
          THEN /\ req' = [req EXCEPT ![r] = DoneReq]
               /\ returned' = Return(r, "breach", 0, e, HTTPException(400))
               /\ UNCHANGED <<breach_daily_counts, breach_day_key, charged>>
          ELSE IF ~rl.ok
          THEN /\ req' = [req EXCEPT ![r] = DoneReq]
               /\ returned' = Return(r, "breach", 0, e, HTTPException(429))
               /\ breach_daily_counts' = rl.counts
               /\ breach_day_key' = rl.day_key
               /\ UNCHANGED charged
          ELSE /\ req' = [req EXCEPT ![r] = [pc |-> "await_directory", url |-> 0,
                                              email |-> e,
                                              today |-> rl.day_key]]
               /\ returned' = NoReturn
               /\ breach_daily_counts' = Charge(rl.counts)
               /\ breach_day_key' = rl.day_key
               /\ charged' = [charged EXCEPT !.breach = @ + 1]
    /\ heap' = Live(heap, cache, None)
    /\ received' = NoReply
    /\ UNCHANGED <<now, settings, cache, analyze_daily_counts, analyze_day_key>>

\* check_email_breaches trying the hash-range endpoint after a 429 as well
BreachDirectory_FallbackOn429(r, reply) ==
    /\ req[r].pc = "await_directory"
    /\ LET d == DirectoryOutcome(reply, Normalize(req[r].email))
       IN IF d.fallback \/ (reply.exc = "" /\ reply.status = 429)
          THEN /\ req' = [req EXCEPT ![r].pc = "await_range"]
               /\ returned' = NoReturn
          ELSE /\ req' = [req EXCEPT ![r] = DoneReq]
               /\ returned' = Return(r, "breach", 0, req[r].email, Breach(d.result))
    /\ heap' = Live(heap, cache, None)
    /\ received' = Received(r, reply)
    /\ UNCHANGED <<now, settings, cache, analyze_daily_counts, analyze_day_key,
                   breach_daily_counts, breach_day_key, charged>>

\* check_email_breaches from the directory's answer to its return or to the
\* await of the hash-range query
BreachDirectory(r, reply) ==
    /\ req[r].pc = "await_directory"
    /\ LET d == DirectoryOutcome(reply, Normalize(req[r].email))
       IN IF d.fallback
          THEN /\ req' = [req EXCEPT ![r].pc = "await_range"]
               /\ returned' = NoReturn
          ELSE /\ req' = [req EXCEPT ![r] = DoneReq]
               /\ returned' = Return(r, "breach", 0, req[r].email, Breach(d.result))
    /\ heap' = Live(heap, cache, None)
    /\ received' = Received(r, reply)
    /\ UNCHANGED <<now, settings, cache, analyze_daily_counts, analyze_day_key,
                   breach_daily_counts, breach_day_key, charged>>

\* _fallback_hash_check from the hash-range answer to the return of
\* breach_endpoint
BreachRange(r, reply) ==
    /\ req[r].pc = "await_range"
    /\ req' = [req EXCEPT ![r] = DoneReq]
    /\ returned' = Return(r, "breach", 0, req[r].email,
                          Breach(FallbackHashCheck(reply, Normalize(req[r].email))))
    /\ heap' = Live(heap, cache, None)
    /\ received' = Received(r, reply)
    /\ UNCHANGED <<now, settings, cache, analyze_daily_counts, analyze_day_key,
                   breach_daily_counts, breach_day_key, charged>>

\* the wall clock moves on
Tick ==
    /\ \E t \in Instants : t > now /\ now' = t
    /\ returned' = NoReturn
    /\ received' = NoReply
    /\ heap' = Live(heap, cache, None)
    /\ charged' = IF Today(now') # Today(now) THEN [analysis |-> 0, breach |-> 0] ELSE charged
    /\ UNCHANGED <<settings, cache, analyze_daily_counts, analyze_day_key,
                   breach_daily_counts, breach_day_key, req>>

Init ==
    /\ now = 0
    /\ settings \in Configs
    /\ cache = [u \in {} |-> None]
    /\ heap = [o \in {} |-> None]
    /\ analyze_daily_counts = [c \in ClientIds |-> 0]
    /\ analyze_day_key = NoDay
    /\ breach_daily_counts = [c \in ClientIds |-> 0]
    /\ breach_day_key = NoDay
    /\ req = [r \in Reqs |-> IdleReq]
    /\ returned = NoReturn
    /\ received = NoReply
    /\ charged = [analysis |-> 0, breach |-> 0]

Next ==
    \/ \E r \in Reqs, u \in Urls : AnalyzeStart(r, u)
    \/ \E r \in Reqs, reply \in LLMReplies : AnalyzeResume(r, reply)
    \/ \E r \in Reqs, e \in Emails : BreachStart(r, e)
    \/ \E r \in Reqs, reply \in DirectoryReplies : BreachDirectory(r, reply)
    \/ \E r \in Reqs : \E reply \in RangeReplies(Normalize(req[r].email)) : BreachRange(r, reply)
    \/ Tick

Spec == Init /\ [][Next]_vars

\* ------------------------------------------------------------------ fairness
\* The timeout= argument of each outbound call, in seconds; None where the
\* call is made without one (generate_content, gemini.py:131-139)
Timeout(call) ==
    CASE call = "groq" -> 30
      [] call = "directory" -> 15
      [] call = "range" -> 10
      [] OTHER -> None

\* the outbound call request r is suspended in
Awaited(r) ==
    CASE req[r].pc = "await_llm" -> AnalyzePage(req[r].url, settings).call
      [] req[r].pc = "await_directory" -> "directory"
      [] req[r].pc = "await_range" -> "range"
      [] OTHER -> ""

\* the awaited call of request r comes back, with an answer or an exception
Resume(r) ==
    \/ \E reply \in LLMReplies : AnalyzeResume(r, reply)
    \/ \E reply \in DirectoryReplies : BreachDirectory(r, reply)
    \/ \E reply \in RangeReplies(Normalize(req[r].email)) : BreachRange(r, reply)

\* A call made with a timeout comes back when the timeout expires at the
\* latest (with a TimeoutException); nothing makes a call without one come back.
Fairness == \A r \in Reqs : WF_vars(Timeout(Awaited(r)) # None /\ Resume(r))

LiveSpec == Spec /\ Fairness

\* ----------------------------------------------- the breach lookup on its own
\* breach_endpoint and check_email_breaches over every kind of address and
\* of answer the two endpoints can give
LookupEmails ==
    Emails \cup { <<"a", "@", "b">>, <<"A", "@", "B", " ">>, <<"\t", "b", "@", "A", "\n">> }

DirectoryResponses ==
    DirectoryReplies \cup
    { [exc |-> "", status |-> 200, json |-> JList(<<>>)],
      [exc |-> "", status |-> 200, json |-> JList(<<JBreach(JStr("Adobe"), JMissing)>>)],
      [exc |-> "", status |-> 200,
       json |-> JList(<<JBreach(JStr("LinkedIn"), JStr("2012-05-05")),
                        JBreach(JStr("Adobe"), JStr("2013-10-04")),
                        JBreach(JMissing, JStr("2019-05-24"))>>)],
      [exc |-> "", status |-> 200, json |-> JInvalid],
      [exc |-> "", status |-> 200, json |-> JNull],
      [exc |-> "", status |-> 200, json |-> JList(<<JNum(100)>>)],
      [exc |-> "", status |-> 200,
       json |-> JList(<<JBreach(JStr("Adobe"), JMissing), JBreach(JNull, JMissing)>>)],
      [exc |-> "", status |-> 500],
      [exc |-> "", status |-> 403],
      [exc |-> "", status |-> 302] }

RangeResponses(email) ==
    RangeReplies(email) \cup
    { [exc |-> "TimeoutException"],
      [exc |-> "", status |-> 404],
      [exc |-> "", status |-> 200, lines |-> <<>>],
      [exc |-> "", status |-> 200, lines |-> << <<Sha1Suffix(email), "0">> >>],
      [exc |-> "", status |-> 200, lines |-> << <<Sha1Suffix(email), "x">> >>],
      [exc |-> "", status |-> 200,
       lines |-> << <<Sha1Suffix(email), "42">>, <<Sha1Suffix(email), "37">> >>],
      [exc |-> "", status |-> 200,
       lines |-> << <<Sha1Suffix(email), "37", "1">>, <<Sha1Suffix(<<"z">>), "42">> >>],
      [exc |-> "", status |-> 200,
       lines |-> << <<Sha1Suffix(email)>>, <<Sha1Suffix(email), "x">>, <<Sha1Suffix(email), "37">> >>] }

LookupInit == Init /\ settings.LLM_PROVIDER = "openai"

LookupNext ==
    \/ \E r \in Reqs, e \in LookupEmails : BreachStart(r, e)
    \/ \E r \in Reqs, reply \in DirectoryResponses : BreachDirectory(r, reply)
    \/ \E r \in Reqs : \E reply \in RangeResponses(Normalize(req[r].email)) : BreachRange(r, reply)

LookupSpec == LookupInit /\ [][LookupNext]_vars

\* ------------------------------------------------ the interpreter on its own
\* analyze_endpoint with a configured backend, over model outputs that carry
\* every kind of risk_score
Scored(text, risk_score) ==
    [exc |-> "", raw |-> RawText(text, JObject(risk_score, JBool(FALSE), JMissing, JMissing))]

ModelOutputs ==
    LLMReplies \cup
    { Scored("{is_safe: false}", JMissing),
      Scored("{risk_score: -5}", JNum(-500)),
      Scored("{risk_score: -1}", JNum(-100)),
      Scored("{risk_score: 0}", JNum(0)),
      Scored("{risk_score: 42}", JNum(4200)),
      Scored("{risk_score: 100}", JNum(10000)),
      Scored("{risk_score: 101}", JNum(10100)),
      Scored("{risk_score: 150}", JNum(15000)),
      Scored("{risk_score: '37'}", JStr("37")),
      Scored("{risk_score: 'high'}", JStr("high")),
      Scored("{risk_score: null}", JNull) }

InterpreterInit == Init

InterpreterNext ==
    \/ \E r \in Reqs, u \in Urls : AnalyzeStart(r, u)
    \/ \E r \in Reqs, reply \in ModelOutputs : AnalyzeResume(r, reply)

InterpreterSpec == InterpreterInit /\ [][InterpreterNext]_vars

\* ======================================================================
\* Properties
\* ======================================================================
Count(counts) == counts["default"]

\* request r runs analyze_endpoint for url u in this step, from its first line
AnalyzeStarts(r, u) ==
    /\ req[r].pc = "idle"
    /\ \/ req'[r].pc = "await_llm" /\ req'[r].url = u
       \/ /\ req'[r].pc = "done"
          /\ returned'.r = r
          /\ returned'.op = "analyze"
          /\ returned'.url = u

\* request r comes back from the backend call in this step
AnalyzeCompletes(r) == req[r].pc = "await_llm" /\ req'[r].pc = "done"

\* request r runs breach_endpoint past its validation in this step
BreachAdmission(r) ==
    /\ req[r].pc = "idle"
    /\ \/ req'[r].pc = "await_directory"
       \/ /\ req'[r].pc = "done"
          /\ returned'.r = r
          /\ returned'.op = "breach"
          /\ returned'.resp = HTTPException(429)

\* the cache holds an entry for u younger than the TTL
Fresh(u) == u \in DOMAIN cache /\ now - cache[u].ts < CACHE_TTL

IsOrchestratorFallback(o) == o.ai_summary[1] = "Analysis temporarily unavailable: "

\* ---------------------------------------------------------------- C1
\* C1: a Get within the TTL of the entry's Put returns the stored result,
\* unchanged in every field but cached = true; a Get at age >= TTL (or with
\* no entry) is a miss that leaves no old entry behind, so that later Gets
\* miss too; and no step changes any field but cached of a live result.
C1_CacheRoundTrip ==
    [][ /\ \A o \in DOMAIN heap \cap DOMAIN heap' :
              [heap'[o] EXCEPT !.cached = heap[o].cached] = heap[o]
        /\ \A r \in Reqs, u \in Urls :
              AnalyzeStarts(r, u) =>
                 IF Fresh(u)
                 THEN /\ returned'.r = r
                      /\ returned'.resp = Result(cache[u].obj)
                      /\ heap'[cache[u].obj] = [heap[cache[u].obj] EXCEPT !.cached = TRUE]
                      /\ cache' = cache
                 ELSE /\ u \in DOMAIN cache' =>
                            /\ cache'[u].ts = now
                            /\ cache'[u].obj \notin DOMAIN heap
                            /\ ~heap'[cache'[u].obj].cached
                      /\ returned'.r = r /\ returned'.resp.kind = "result" =>
                            /\ returned'.resp.obj \notin DOMAIN heap
                            /\ ~heap'[returned'.resp.obj].cached
      ]_vars

\* a hit served when the entry is one second short of its TTL
C1_Witness ==
    /\ returned.r # 0
    /\ returned.op = "analyze"
    /\ returned.resp.kind = "result"
    /\ returned.url \in DOMAIN cache
    /\ cache[returned.url].obj = returned.resp.obj
    /\ now - cache[returned.url].ts = CACHE_TTL - 1
    /\ heap[returned.resp.obj].cached

\* ---------------------------------------------------------------- C2
\* C2: every AnalyzeResponse the cache holds has cached = false (a hit does
\* not mutate the stored copy).
C2_StoredCopyNotMutated ==
    \A u \in DOMAIN cache : ~heap[cache[u].obj].cached

\* ---------------------------------------------------------------- C3
\* C3: the analysis used-count never exceeds the configured limit, in any
\* interleaving of requests.
C3_NeverOverAdmitted ==
    Count(analyze_daily_counts) <= FREE_SCANS_PER_DAY

\* ---------------------------------------------------------------- C4
\* C4: whenever a used-count is read or incremented, the stored date is the
\* current date: every step that changes a count leaves the stored date of
\* that class equal to the wall-clock date.
C4_DateRollover ==
    [][ /\ analyze_daily_counts' # analyze_daily_counts => analyze_day_key' = Today(now')
        /\ breach_daily_counts' # breach_daily_counts => breach_day_key' = Today(now')
      ]_vars

\* ---------------------------------------------------------------- C5
\* C5: once L operations of a class were admitted and charged on the current
\* calendar day, every further quota check of that class on that day is
\* refused; the first quota check after the date changed is admitted.
C5_DailyLimit ==
    [][ \A r \in Reqs :
          /\ (\E u \in Urls : AnalyzeStarts(r, u) /\ ~Fresh(u)) =>
                /\ charged.analysis >= FREE_SCANS_PER_DAY =>
                      returned'.r = r /\ returned'.resp = HTTPException(429)
                /\ analyze_day_key # Today(now) =>
                      ~(returned'.r = r /\ returned'.resp = HTTPException(429))
          /\ BreachAdmission(r) =>
                /\ charged.breach >= FREE_BREACH_CHECKS_PER_DAY =>
                      req'[r].pc = "done"
                /\ breach_day_key # Today(now) => req'[r].pc = "await_directory"
      ]_vars

\* a request refused on the second day, after that day's quota was used up
C5_Witness ==
    /\ Today(now) = 1
    /\ charged.analysis >= FREE_SCANS_PER_DAY
    /\ returned.r # 0
    /\ returned.op = "analyze"
    /\ returned.resp = HTTPException(429)

\* ---------------------------------------------------------------- C6
\* C6: a request that the backend answers successfully writes the cache and
\* raises the used-count by exactly one; a request for a URL whose entry is
\* younger than the TTL returns that entry's result with cached = true,
\* without a backend call and without touching the quota state.
C6_CacheAbsorbsRepeats ==
    [][ \A r \in Reqs :
          /\ (AnalyzeCompletes(r) /\ ~IsOrchestratorFallback(heap'[returned'.resp.obj])) =>
                /\ Count(analyze_daily_counts') = Count(analyze_daily_counts) + 1
                /\ cache'[req[r].url] = [obj |-> returned'.resp.obj, ts |-> now]
          /\ \A u \in Urls :
                (AnalyzeStarts(r, u) /\ Fresh(u)) =>
                   /\ req'[r].pc = "done"
                   /\ returned'.resp = Result(cache[u].obj)
                   /\ heap'[cache[u].obj].cached
                   /\ UNCHANGED <<analyze_daily_counts, analyze_day_key, cache>>
      ]_vars

\* the second request for a URL, served from the entry the first one wrote,
\* with one unit charged
C6_Witness ==
    /\ returned.r = 2
    /\ returned.op = "analyze"
    /\ returned.resp.kind = "result"
    /\ heap[returned.resp.obj].cached
    /\ ~IsOrchestratorFallback(heap[returned.resp.obj])
    /\ heap[returned.resp.obj].risk_score = 87
    /\ Count(analyze_daily_counts) = 1

\* ---------------------------------------------------------------- C7
\* C7: a request that passed its quota check and started the backend call
\* is charged one unit when the call comes back, whether it succeeded or
\* raised.
C7_ChargedOnFailure ==
    [][ \A r \in Reqs :
          AnalyzeCompletes(r) =>
             Count(analyze_daily_counts') = Count(analyze_daily_counts) + 1
      ]_vars

\* ---------------------------------------------------------------- C8
\* C8: an analysis request ends with an AnalyzeResponse or with the
\* quota-exceeded error, nothing else; a request that comes back from the
\* backend either caches its result or (the client raised) returns the safe
\* fallback: risk_score 0, is_safe, no threats, cached = false.
C8_FailsOpen ==
    [][ /\ (returned'.r # 0 /\ returned'.op = "analyze") =>
              \/ returned'.resp.kind = "result" /\ returned'.resp.obj \in DOMAIN heap'
              \/ returned'.resp = HTTPException(429)
        /\ \A r \in Reqs :
              AnalyzeCompletes(r) =>
                 /\ returned'.r = r
                 /\ returned'.resp.kind = "result"
                 /\ LET o == heap'[returned'.resp.obj]
                    IN \/ /\ req[r].url \in DOMAIN cache'
                          /\ cache'[req[r].url].obj = returned'.resp.obj
                          /\ ~IsOrchestratorFallback(o)
                       \/ /\ IsOrchestratorFallback(o)
                          /\ o.risk_score = 0 /\ o.is_safe /\ o.threats = <<>> /\ ~o.cached
                          /\ o.url = req[r].url
      ]_vars

\* the fallback returned after an exception escaped the interpreter
C8_Witness ==
    /\ returned.r # 0
    /\ returned.op = "analyze"
    /\ returned.resp.kind = "result"
    /\ heap[returned.resp.obj].ai_summary = <<"Analysis temporarily unavailable: ", "AttributeError">>

\* ---------------------------------------------------------------- C9
\* C9: a cache miss while today's used-count is at or above the limit ends
\* with the quota-exceeded error: no backend call, no cache entry for the
\* URL, no increment.
C9_QuotaShortCircuit ==
    [][ \A r \in Reqs, u \in Urls :
          (/\ AnalyzeStarts(r, u)
           /\ ~Fresh(u)
           /\ analyze_day_key = Today(now)
           /\ Count(analyze_daily_counts) >= FREE_SCANS_PER_DAY) =>
             /\ req'[r].pc = "done"
             /\ returned'.resp = HTTPException(429)
             /\ u \notin DOMAIN cache'
             /\ \A v \in Urls \ {u} : v \in DOMAIN cache' <=> v \in DOMAIN cache
             /\ UNCHANGED <<analyze_daily_counts, analyze_day_key>>
      ]_vars

\* the limit is reached and a request has just been refused
C9_Witness ==
    /\ returned.r # 0
    /\ returned.op = "analyze"
    /\ returned.resp = HTTPException(429)
    /\ Count(analyze_daily_counts) >= FREE_SCANS_PER_DAY
    /\ returned.url \notin DOMAIN cache

\* ---------------------------------------------------------------- C10
\* C10: when the selected backend has no credential, no request ever waits
\* on a backend call, and every AnalyzeResponse returned has risk_score 0,
\* is_safe and the summary naming the missing key.
MissingKeySummary(cfg) ==
    IF Lower(cfg.LLM_PROVIDER) = "gemini" /\ cfg.GEMINI_API_KEY = ""
    THEN <<"Gemini API key not configured. Set GEMINI_API_KEY in .env">>
    ELSE IF Lower(cfg.LLM_PROVIDER) = "groq" /\ cfg.GROQ_API_KEY = ""
    THEN <<"Groq API key not configured. Set GROQ_API_KEY in .env">>
    ELSE <<>>

C10_MissingCredential ==
    MissingKeySummary(settings) # <<>> =>
       /\ \A r \in Reqs : req[r].pc # "await_llm"
       /\ (returned.r # 0 /\ returned.op = "analyze" /\ returned.resp.kind = "result") =>
             LET o == heap[returned.resp.obj]
             IN o.risk_score = 0 /\ o.is_safe /\ o.ai_summary = MissingKeySummary(settings)

\* the groq backend without its key has answered a request
C10_Witness ==
    /\ Lower(settings.LLM_PROVIDER) = "groq"
    /\ settings.GROQ_API_KEY = ""
    /\ returned.r # 0
    /\ returned.op = "analyze"
    /\ returned.resp.kind = "result"
    /\ ~heap[returned.resp.obj].cached

\* ---------------------------------------------------------------- C11
\* C11: a breach request whose e-mail is empty or has no "@" ends with the
\* validation error (status 400) in the step it starts in: the breach
\* used-count and stored date are left as they were (the quota check has
\* not run) and no request is ever waiting on an outbound query with such
\* an address.
HasAt(e) == \E i \in DOMAIN e : e[i] = "@"

C11_ValidationFirst ==
    [][ /\ \A r \in Reqs :
              (/\ req[r].pc = "idle"
               /\ returned'.r = r
               /\ returned'.op = "breach"
               /\ ~HasAt(returned'.email)) =>
                 /\ returned'.resp = HTTPException(400)
                 /\ req'[r].pc = "done"
                 /\ UNCHANGED <<breach_daily_counts, breach_day_key>>
        /\ \A r \in Reqs :
              req'[r].pc \in {"await_directory", "await_range"} => HasAt(req'[r].email)
      ]_vars

\* an address without "@" rejected on the second day while the stored date
\* is still the first day's and its count is used: the quota check did not run
C11_Witness ==
    /\ returned.r # 0
    /\ returned.op = "breach"
    /\ returned.email = <<"b">>
    /\ returned.resp = HTTPException(400)
    /\ Today(now) = 1
    /\ breach_day_key = 0
    /\ Count(breach_daily_counts) = 1

\* ---------------------------------------------------------------- C12
\* C12: a lookup queries the directory once, first: a request waits on the
\* directory only from the step that starts it, and a result of the lookup
\* is only returned by a request that waited.  It waits on the hash-range
\* endpoint only from the step in which the directory answered 401, and it
\* does so then; every other directory outcome ends the request in that
\* step, and so does every hash-range outcome; a finished request makes no
\* further query.
Is401(reply) == reply.exc = "" /\ reply.status = 401

TrimmedLower(raw, out) ==
    \E i \in 1..(Len(raw) + 1), j \in 0..Len(raw) :
       /\ out = [k \in 1..(j - i + 1) |-> LowerChar(raw[i + k - 1])]
       /\ \A k \in 1..(i - 1) : IsSpace(raw[k])
       /\ \A k \in (j + 1)..Len(raw) : IsSpace(raw[k])
       /\ out # <<>> => ~IsSpace(out[1]) /\ ~IsSpace(out[Len(out)])

StrOr(v, default) == IF v.t = "missing" THEN default ELSE v.s

BreachObjects(json) ==
    /\ json.t = "list"
    /\ \A i \in DOMAIN json.items :
          /\ json.items[i].t = "object"
          /\ json.items[i].Name.t \in {"str", "missing"}
          /\ json.items[i].BreachDate.t \in {"str", "missing"}

Names(breaches) == [i \in DOMAIN breaches |-> breaches[i].name]

Diagnostic(out, name) ==
    ~out.breached /\ out.breach_count = 0 /\ Names(out.breaches) = <<name>>

Clean(out) == ~out.breached /\ out.breach_count = 0 /\ out.breaches = <<>>

C13_DirectoryMapping ==
    [][ \A r \in Reqs :
          (req[r].pc = "await_directory" /\ received'.r = r /\ ~Is401(received'.reply)) =>
             /\ returned'.r = r
             /\ returned'.resp.kind = "breach"
             /\ LET reply == received'.reply
                    out == returned'.resp.body
                IN /\ TrimmedLower(req[r].email, out.email)
                   /\ IF reply.exc = "TimeoutException" THEN Diagnostic(out, "Timeout")
                      ELSE IF reply.exc # "" THEN Diagnostic(out, "Error")
                      ELSE IF reply.status = 404 THEN Clean(out)
                      ELSE IF reply.status = 429 THEN Diagnostic(out, "Rate Limited")
                      ELSE IF reply.status # 200 THEN Clean(out)
                      ELSE IF ~BreachObjects(reply.json) THEN Diagnostic(out, "Error")
                      ELSE /\ out.breached
                           /\ out.breach_count = Len(reply.json.items)
                           /\ Len(out.breaches) = Len(reply.json.items)
                           /\ \A i \in DOMAIN reply.json.items :
                                 /\ out.breaches[i].name = StrOr(reply.json.items[i].Name, "Unknown")
                                 /\ out.breaches[i].date =
                                       StrOr(reply.json.items[i].BreachDate, "Unknown")
      ]_vars

\* three breaches reported, in the directory's order, for an address given
\* in upper case with a trailing blank
C13_Witness ==
    /\ returned.r # 0
    /\ returned.op = "breach"
    /\ returned.email = <<"A", "@", "B", " ">>
    /\ returned.resp.kind = "breach"
    /\ returned.resp.body.email = <<"a", "@", "b">>
    /\ returned.resp.body.breached
    /\ Names(returned.resp.body.breaches) = <<"LinkedIn", "Adobe", "Unknown">>

\* ---------------------------------------------------------------- C14
\* C14: the result a lookup returns in the step the hash-range endpoint
\* answered (the directory had answered 401).  When the answer has status
\* 200 and a line of two parts whose first part is the SHA-1 suffix of the
\* normalised e-mail, and the count of the first such line is a number:
\* breached, that count, the one record "Hash Match".  When the query
\* raised, the status is not 200, no line matches, or the first matching
\* line's count is not a number: not breached, count 0, no record.
Matching(lines, suffix) == {i \in DOMAIN lines : Len(lines[i]) = 2 /\ lines[i][1] = suffix}

FirstOf(S) == CHOOSE i \in S : \A j \in S : i <= j

C14_HashFallback ==
    [][ \A r \in Reqs :
          (req[r].pc = "await_range" /\ received'.r = r) =>
             /\ returned'.r = r
             /\ returned'.resp.kind = "breach"
             /\ LET reply == received'.reply
                    out == returned'.resp.body
                    found == /\ reply.exc = ""
                             /\ reply.status = 200
                             /\ Matching(reply.lines, Sha1Suffix(out.email)) # {}
                IN /\ TrimmedLower(req[r].email, out.email)
                   /\ IF found
                      THEN LET count == reply.lines[FirstOf(Matching(reply.lines,
                                                          Sha1Suffix(out.email)))][2]
                           IN IF count \in DOMAIN NumericStrings
                              THEN /\ out.breached
                                   /\ out.breach_count = NumericStrings[count]
                                   /\ Names(out.breaches) = <<"Hash Match">>
                              ELSE Clean(out)
                      ELSE Clean(out)
      ]_vars

\* two lines match: the count reported is the first line's
C14_Witness ==
    /\ returned.r # 0
    /\ returned.op = "breach"
    /\ returned.resp.kind = "breach"
    /\ received.r = returned.r
    /\ "lines" \in DOMAIN received.reply
    /\ Cardinality(Matching(received.reply.lines, Sha1Suffix(returned.resp.body.email))) = 2
    /\ returned.resp.body.breach_count = 42
    /\ Names(returned.resp.body.breaches) = <<"Hash Match">>

\* ---------------------------------------------------------------- C15
\* C15: the interpreter never raises: whenever the backend call came back
\* with a text, the result the request returns is the interpreter's (no
\* exception reached the except clause of analyze_endpoint), and unless the
\* text is a JSON object it is the interpreter's safe fallback, with
\* risk_score 0 and is_safe.
IsInterpreterFallback(o) == o.ai_summary[1] = "Analysis could not be parsed. Raw: "

C15_InterpreterTotal ==
    [][ \A r \in Reqs :
          (AnalyzeCompletes(r) /\ received'.r = r /\ received'.reply.exc = "") =>
             LET o == heap'[returned'.resp.obj]
             IN /\ ~IsOrchestratorFallback(o)
                /\ received'.reply.raw.json.t # "object" =>
                      IsInterpreterFallback(o) /\ o.risk_score = 0 /\ o.is_safe
      ]_vars

\* ---------------------------------------------------------------- C16
\* C16: when the model's text is a well-formed response whose risk_score is
\* the integer v, the result returned has risk_score v clamped into 0..100
\* (0 below 0, 100 above 100); with no risk_score it has 0; and every
\* AnalyzeResponse the program holds, on whatever path it was made, has its
\* risk_score in 0..100.
WellFormedThreats(tv) ==
    \/ tv.t = "missing"
    \/ /\ tv.t = "list"
       /\ \A i \in DOMAIN tv.items :
             /\ tv.items[i].t = "object"
             /\ tv.items[i].type.t \in {"str", "missing"}
             /\ tv.items[i].confidence.t \in {"num", "missing"}

WellFormed(json) ==
    /\ json.t = "object"
    /\ WellFormedThreats(json.threats)
    /\ json.is_safe.t \in {"bool", "missing"}
    /\ json.ai_summary.t \in {"str", "missing"}
    /\ \/ json.risk_score.t = "missing"
       \/ json.risk_score.t = "num" /\ json.risk_score.h % 100 = 0

Clamped(v) == IF v < 0 THEN 0 ELSE IF v > 100 THEN 100 ELSE v

C16_RiskScoreClamped ==
    [][ /\ \A r \in Reqs :
              (/\ AnalyzeCompletes(r)
               /\ received'.r = r
               /\ received'.reply.exc = ""
               /\ WellFormed(received'.reply.raw.json)) =>
                 LET v == received'.reply.raw.json.risk_score
                     o == heap'[returned'.resp.obj]
                 IN /\ ~IsOrchestratorFallback(o)
                    /\ ~IsInterpreterFallback(o)
                    /\ o.risk_score = IF v.t = "missing" THEN 0 ELSE Clamped(v.h \div 100)
        /\ \A o \in DOMAIN heap' : heap'[o].risk_score \in 0..100
      ]_vars

\* a risk_score of 150 returned as 100
C16_Witness ==
    /\ returned.r # 0
    /\ returned.op = "analyze"
    /\ returned.resp.kind = "result"
    /\ received.r = returned.r
    /\ received.reply.exc = ""
    /\ received.reply.raw.json.t = "object"
    /\ received.reply.raw.json.risk_score = JNum(15000)
    /\ heap[returned.resp.obj].risk_score = 100

\* ---------------------------------------------------------------- C17
\* C17: a request for an uncached URL goes on to the backend although
\* another request for the same URL is waiting on the backend, provided the
\* quota check admits it; and each of the requests that comes back with a
\* result raises the used-count by one and puts its own result in the cache
\* with the current time, replacing whatever entry is there, without
\* disturbing the requests still waiting: the entry that remains is the one
\* of the request that came back last.
InFlight(q, u) == req[q].pc = "await_llm" /\ req[q].url = u

C17_NoInFlightDedup ==
    [][ \A r \in Reqs :
          /\ \A u \in Urls :
                (/\ AnalyzeStarts(r, u)
                 /\ ~Fresh(u)
                 /\ \E q \in Reqs \ {r} : InFlight(q, u)
                 /\ \/ analyze_day_key # Today(now)
                    \/ Count(analyze_daily_counts) < FREE_SCANS_PER_DAY) =>
                   req'[r].pc = "await_llm"
          /\ (AnalyzeCompletes(r) /\ ~IsOrchestratorFallback(heap'[returned'.resp.obj])) =>
                /\ Count(analyze_daily_counts') = Count(analyze_daily_counts) + 1
                /\ cache'[req[r].url] = [obj |-> returned'.resp.obj, ts |-> now]
                /\ returned'.resp.obj \notin {cache[k].obj : k \in DOMAIN cache}
                /\ \A q \in Reqs \ {r} : req'[q] = req[q]
      ]_vars

\* at one instant and with a limit of FREE_SCANS_PER_DAY, one unit more than
\* the limit has been charged for a single cached URL, whose entry is the
\* result of the request that has just come back
C17_Witness ==
    /\ now = 0
    /\ \A r \in Reqs : req[r].pc = "done"
    /\ Count(analyze_daily_counts) = FREE_SCANS_PER_DAY + 1
    /\ returned.r # 0
    /\ returned.op = "analyze"
    /\ returned.resp.kind = "result"
    /\ DOMAIN cache = {returned.url}
    /\ cache[returned.url].obj = returned.resp.obj
    /\ received.r = returned.r

\* ---------------------------------------------------------------- C18
\* C18: every request that has started eventually completes, even if the
\* remote side never answers: each outbound call it waits on ends (by its
\* timeout at the latest) and the request returns.
C18_EveryRequestCompletes ==
    \A r \in Reqs : (req[r].pc # "idle") ~> (req[r].pc = "done")

\* ---------------------------------------------------------------- C19
\* C19: the lookups started on one calendar day never number more than the
\* breach limit, and neither does the breach used-count; the step that
\* admits a breach request leaves the used-count one above what the quota
\* check read (0 if the date had changed) before the request waits on the
\* directory; and no answer to the lookup, of whatever kind, changes the
\* count afterwards.
C19_BreachAtomic ==
    [][ /\ charged'.breach <= FREE_BREACH_CHECKS_PER_DAY
        /\ Count(breach_daily_counts') <= FREE_BREACH_CHECKS_PER_DAY
        /\ \A r \in Reqs :
              /\ (req[r].pc = "idle" /\ req'[r].pc = "await_directory") =>
                    /\ breach_day_key' = Today(now)
                    /\ Count(breach_daily_counts') =
                          (IF breach_day_key = Today(now)
                           THEN Count(breach_daily_counts) ELSE 0) + 1
                    /\ charged'.breach = charged.breach + 1
              /\ (req[r].pc \in {"await_directory", "await_range"} /\ received'.r = r) =>
                    UNCHANGED <<breach_daily_counts, breach_day_key>>
      ]_vars

\* a breach request refused while the request that used up the limit is
\* still waiting on the directory
C19_Witness ==
    /\ returned.r # 0
    /\ returned.op = "breach"
    /\ returned.resp = HTTPException(429)
    /\ \E q \in Reqs : req[q].pc = "await_directory"
    /\ Count(breach_daily_counts) = FREE_BREACH_CHECKS_PER_DAY
    /\ charged.breach = FREE_BREACH_CHECKS_PER_DAY

\* ---------------------------------------------------------------- C20
\* C20: a result the client makes up without raising is treated as a
\* success.  A request that misses the cache and is admitted while the
\* selected backend has no key or the provider is unknown, and a request
\* whose backend text is not JSON, return a zero-risk result that is put in
\* the cache under the URL with the current time, and the used-count rises
\* by one; a request for a URL whose entry, younger than the TTL, holds such
\* a result is served it with cached = true.
IsClientFallback(o) ==
    o.ai_summary[1] \in { "Gemini API key not configured. Set GEMINI_API_KEY in .env",
                          "Groq API key not configured. Set GROQ_API_KEY in .env",
                          "Unknown LLM provider: ",
                          "Analysis could not be parsed. Raw: " }

NoBackend(cfg) ==
    \/ MissingKeySummary(cfg) # <<>>
    \/ Lower(cfg.LLM_PROVIDER) \notin {"gemini", "groq"}

C20_ClientFallbackCached ==
    [][ \A r \in Reqs :
          /\ \A u \in Urls :
                (/\ AnalyzeStarts(r, u)
                 /\ ~Fresh(u)
                 /\ NoBackend(settings)
                 /\ \/ analyze_day_key # Today(now)
                    \/ Count(analyze_daily_counts) < FREE_SCANS_PER_DAY) =>
                   /\ returned'.r = r
                   /\ returned'.resp.kind = "result"
                   /\ LET o == heap'[returned'.resp.obj]
                      IN IsClientFallback(o) /\ o.risk_score = 0 /\ o.is_safe /\ ~o.cached
                   /\ cache'[u] = [obj |-> returned'.resp.obj, ts |-> now]
                   /\ Count(analyze_daily_counts') =
                         (IF analyze_day_key = Today(now)
                          THEN Count(analyze_daily_counts) ELSE 0) + 1
          /\ (/\ AnalyzeCompletes(r)
              /\ received'.r = r
              /\ received'.reply.exc = ""
              /\ received'.reply.raw.json.t = "invalid") =>
                /\ LET o == heap'[returned'.resp.obj]
                   IN IsInterpreterFallback(o) /\ o.risk_score = 0 /\ o.is_safe /\ ~o.cached
                /\ cache'[req[r].url] = [obj |-> returned'.resp.obj, ts |-> now]
                /\ Count(analyze_daily_counts') = Count(analyze_daily_counts) + 1
          /\ \A u \in Urls :
                (AnalyzeStarts(r, u) /\ Fresh(u) /\ IsClientFallback(heap[cache[u].obj])) =>
                   /\ returned'.r = r
                   /\ returned'.resp = Result(cache[u].obj)
                   /\ heap'[cache[u].obj] = [heap[cache[u].obj] EXCEPT !.cached = TRUE]
      ]_vars

\* the interpreter's fallback served from the cache one second before its
\* entry expires, one unit charged
C20_Witness ==
    /\ returned.r # 0
    /\ returned.op = "analyze"
    /\ returned.resp.kind = "result"
    /\ IsInterpreterFallback(heap[returned.resp.obj])
    /\ heap[returned.resp.obj].cached
    /\ returned.url \in DOMAIN cache
    /\ cache[returned.url].obj = returned.resp.obj
    /\ now - cache[returned.url].ts = CACHE_TTL - 1
    /\ received.r = 0
    /\ Count(analyze_daily_counts) = 1

\* ---------------------------------------------------------------- C21
\* C21: a request for a URL whose entry is younger than the TTL, made while
\* the used-count is at or above the limit or while the stored date is not
\* the current date, returns that entry's result with cached = true and
\* leaves the quota state (the used-count and the stored date, stale or
\* not) exactly as it was.
C21_HitIgnoresQuota ==
    [][ \A r \in Reqs, u \in Urls :
          (/\ AnalyzeStarts(r, u)
           /\ Fresh(u)
           /\ \/ Count(analyze_daily_counts) >= FREE_SCANS_PER_DAY
              \/ analyze_day_key # Today(now)) =>
             /\ req'[r].pc = "done"
             /\ returned'.r = r
             /\ returned'.resp = Result(cache[u].obj)
             /\ heap'[cache[u].obj].cached
             /\ analyze_daily_counts' = analyze_daily_counts
             /\ analyze_day_key' = analyze_day_key
      ]_vars

\* a hit served on the second day while the stored date is still the first
\* day's and its count is at the limit
C21_Witness ==
    /\ returned.r # 0
    /\ returned.op = "analyze"
    /\ returned.resp.kind = "result"
    /\ received.r = 0
    /\ heap[returned.resp.obj].cached
    /\ Fresh(returned.url)
    /\ cache[returned.url].obj = returned.resp.obj
    /\ analyze_day_key # Today(now)
    /\ Count(analyze_daily_counts) >= FREE_SCANS_PER_DAY

\* ---------------------------------------------------------------- C22
\* C22: the step in which the client raised (the backend call failed, or
\* the result returned is that of the except clause) leaves the cache as it
\* was, and the result it returns is held by no entry; no entry ever holds a
\* result of the except clause; and a request for a URL that has no entry
\* younger than the TTL is not served from the cache: it goes through the
\* quota check and, when admitted with a configured backend, calls the
\* backend again.
C22_FallbackNeverCached ==
    [][ /\ \A r \in Reqs :
              (/\ AnalyzeCompletes(r)
               /\ \/ received'.reply.exc # ""
                  \/ IsOrchestratorFallback(heap'[returned'.resp.obj])) =>
                 /\ cache' = cache
                 /\ \A k \in DOMAIN cache' : cache'[k].obj # returned'.resp.obj
        /\ \A k \in DOMAIN cache' : ~IsOrchestratorFallback(heap'[cache'[k].obj])
        /\ \A r \in Reqs, u \in Urls :
              (AnalyzeStarts(r, u) /\ ~Fresh(u)) =>
                 /\ (returned'.r = r /\ returned'.resp.kind = "result") =>
                       ~heap'[returned'.resp.obj].cached
                 /\ IF \/ analyze_day_key # Today(now)
                       \/ Count(analyze_daily_counts) < FREE_SCANS_PER_DAY
                    THEN ~NoBackend(settings) => req'[r].pc = "await_llm"
                    ELSE returned'.r = r /\ returned'.resp = HTTPException(429)
      ]_vars

\* the second request has failed as well: no URL is cached and nothing is charged
C22_Witness ==
    /\ returned.r = 2
    /\ returned.op = "analyze"
    /\ returned.resp.kind = "result"
    /\ IsOrchestratorFallback(heap[returned.resp.obj])
    /\ received.r = 2
    /\ received.reply.exc = "ConnectError"
    /\ cache = <<>>
    /\ analyze_day_key = Today(now)
    /\ Count(analyze_daily_counts) = 0

\* ---------------------------------------------------------------- C23
\* C23: every result a lookup returns is consistent: breached implies a
\* breach_count of at least 1, and not breached implies a breach_count of 0.
C23_FlagMatchesCount ==
    (returned.r # 0 /\ returned.resp.kind = "breach") =>
       LET out == returned.resp.body
       IN /\ out.breached => out.breach_count >= 1
          /\ ~out.breached => out.breach_count = 0

====
